---------------------------- MODULE Spec2Model ----------------------------
(***************************************************************************)
(* A model of the simulation core of yeehaw (src/src/main.rs): the specs   *)
(* World with its component storages and resources, the four systems the   *)
(* dispatcher runs in every pass (RigidBodyPhysics, PlayerControl,         *)
(* ShootBullets, DoHook), and MainState's input handling and update loop.  *)
(*                                                                         *)
(* Numbers.  The source computes in f32.  Every quantity the systems       *)
(* produce is a multiple of a fixed step, so the model keeps them as exact *)
(* integers in these units (f32 rounding is not modelled):                 *)
(*   time      one unit = one pass of 1/DESIRED_FPS s (DeltaTime is 0 or 1)*)
(*   position  one unit = 1/PosScale world units                           *)
(*   velocity  one unit = one position unit per pass                       *)
(*   cooldown  one unit = 1/CdScale s                                      *)
(* A storage is a function from the entities that hold the component to    *)
(* its value; a join is the intersection of the domains, visited in        *)
(* ascending entity id (creation order).                                   *)
(***************************************************************************)
EXTENDS Integers, Sequences, FiniteSets, TLC

VARIABLES world,        \* MainState.world: storages and resources
          global_time,  \* MainState.global_time
          pc,           \* where MainState::update / the dispatcher stands
          prev,         \* history: the world when the current pass began
          spawned,      \* history: slot the spawn loop of this pass took
          fired,        \* history: the spawn branch of this pass was entered
          shots,        \* history: Dead -> Alive transitions so far
          ticks,        \* history: passes run so far
          passes,       \* history: passes run inside the current update
          events,       \* history: key events handled so far
          skipped,      \* history: long holds taken so far
          boss,         \* MainState.boss
          bullets,      \* MainState.bullets
          actor,        \* MainState.player (the Actor)
          boss_log      \* history: the calls of boss_update and
                        \*   handle_intersection and the phase switches

vars == <<world, global_time, pc, prev, spawned, fired, shots, ticks, passes,
          events, skipped, boss, bullets, actor, boss_log>>

-----------------------------------------------------------------------------
(* Bounds of the exploration *)

MaxPool == 2        \* bullet slots created at setup in the bounded worlds
MaxTicks == 4       \* passes explored step by step
MaxPasses == 2      \* passes inside one call of update
MaxEvents == 2       \* key events explored
MaxSkips == 1       \* holds (see Hold)
HoldShort == 38     \* frames of a short hold: the player is still falling
HoldLong == 240     \* frames of a long hold: four seconds
MaxBossCalls == 1202 \* calls of boss_update in a run of the boss alone
MaxHitCalls == 2    \* calls of boss_update in a run with bullets
MaxChecks == 2      \* calls of handle_intersection

-----------------------------------------------------------------------------
(* Units and program constants *)

DESIRED_FPS == 60
PosScale == (3 * DESIRED_FPS) \div 5          \* 36 position units per world unit
CdScale == 100 * DESIRED_FPS                  \* 6000 cooldown units per second

Units(u) == u * PosScale                      \* a world length
Speed(s) == (s * PosScale) \div DESIRED_FPS   \* world units/s -> units/pass
Accel(a) == (a * PosScale) \div (DESIRED_FPS * DESIRED_FPS)

POOL_SIZE == 100
NUM_HOOKS == 3
HOOK_SPACING == Units(150)
GROUND_Y_Low == Units(-200)                   \* variant: a lower ground
GROUND_Y == Units(-150)
BOUNDS == Units(400)
HOOK_RANGE_Wide == Units(200)                 \* variant: a wider reach
HOOK_RANGE == Units(100)
GRAVITY == Accel(500)
WALK_SPEED == Speed(100)
JUMP_IMPULSE == Speed(300)
BULLET_SPEED == Speed(600)
COOLDOWN_MAX == (35 * CdScale) \div 1000      \* 0.035 s
SECONDS == CdScale \div DESIRED_FPS           \* one pass, in cooldown units
HeldTicks == DESIRED_FPS                      \* one simulated second of passes

Inputs == {"LEFT", "RIGHT", "JUMP", "SHOOT", "TOOL"}

Player == 0
NoSlot == -1

Abs(n) == IF n < 0 THEN -n ELSE n
Min(S) == CHOOSE m \in S : \A n \in S : m <= n

-----------------------------------------------------------------------------
(* Dist::distance, with the square root taken downwards to a whole unit *)

RECURSIVE SqrtSearch(_, _, _)
SqrtSearch(n, lo, hi) ==
    IF lo >= hi THEN lo
    ELSE LET mid == (lo + hi + 1) \div 2
         IN  IF mid * mid <= n THEN SqrtSearch(n, mid, hi)
                               ELSE SqrtSearch(n, lo, mid - 1)

Sqrt(n) == SqrtSearch(n, 0, 46340)

distance(a, b) ==
    LET dx == a[1] - b[1]
        dy == a[2] - b[2]
    IN  Sqrt(dx * dx + dy * dy)

(* f32::atan2: the angle is kept as the pair of arguments that determines it *)
atan2(y, x) == <<y, x>>

-----------------------------------------------------------------------------
(* MainState::new: the world after construction, with n bullet slots *)

BulletIds(n) == 1 .. n
HookIds(n) == (n + 1) .. (n + NUM_HOOKS)

InputStateDefault ==
    [xaxis |-> 0, shoot |-> FALSE, keys |-> {}, just_pressed |-> {}]

NewWorld(n) ==
    [pos |-> [e \in Player .. (n + NUM_HOOKS) |->
                 IF e \in HookIds(n)
                 THEN <<-HOOK_SPACING + HOOK_SPACING * (e - n - 1), 0>>
                 ELSE <<0, 0>>],
     vel |-> [e \in Player .. n |-> <<0, 0>>],
     facing |-> [e \in {Player} |-> "Right"],
     is_player |-> {Player},
     has_gravity |-> {Player},
     is_jumping |-> [e \in {Player} |-> FALSE],
     cooldown |-> [e \in {Player} |-> COOLDOWN_MAX],
     bullet |-> [e \in BulletIds(n) |-> "Dead"],
     is_hook |-> HookIds(n),
     swing_data |-> [e \in {} |-> 0],
     is_target |-> {},
     delta |-> 0,
     t |-> 0,
     input |-> InputStateDefault]

-----------------------------------------------------------------------------
(* InputState *)

(* variant: every key-down event is an edge, also for a key already held *)
register_keypress_Always(input_state, input) ==
    [input_state EXCEPT
        !.just_pressed = @ \cup {input},
        !.keys = @ \cup {input}]

register_keypress(input_state, input) ==
    [input_state EXCEPT
        !.just_pressed = IF input \notin input_state.keys
                         THEN @ \cup {input} ELSE @,
        !.keys = @ \cup {input}]

unregister_keypress(input_state, input) ==
    [input_state EXCEPT !.keys = @ \ {input}]

(* variant: RIGHT takes precedence when both LEFT and RIGHT are held *)
update_key_flags_RightWins(input_state) ==
    [input_state EXCEPT
        !.xaxis = IF "RIGHT" \in input_state.keys THEN 1
                  ELSE IF "LEFT" \in input_state.keys THEN -1 ELSE 0,
        !.shoot = "SHOOT" \in input_state.keys]

update_key_flags(input_state) ==
    LET left == IF "LEFT" \in input_state.keys THEN 1 ELSE 0
        right == IF "RIGHT" \in input_state.keys THEN 1 ELSE 0
    IN  [input_state EXCEPT
            !.xaxis = (-1 * left) + (1 * right),
            !.shoot = "SHOOT" \in input_state.keys]

-----------------------------------------------------------------------------
(* RigidBodyPhysics::run *)

(* variant: gravity is applied first and the new velocity moves the body *)
RigidBodyPhysics_GravityFirst(w) ==
    LET dt == w.delta
        J == DOMAIN w.pos \cap DOMAIN w.vel
        v(e) == IF e \in w.has_gravity
                THEN <<w.vel[e][1], w.vel[e][2] - GRAVITY * dt>>
                ELSE w.vel[e]
    IN  [w EXCEPT
            !.pos = [e \in DOMAIN w.pos |->
                        IF e \in J
                        THEN <<w.pos[e][1] + v(e)[1] * dt,
                               w.pos[e][2] + v(e)[2] * dt>>
                        ELSE w.pos[e]],
            !.vel = [e \in DOMAIN w.vel |-> IF e \in J THEN v(e) ELSE w.vel[e]]]

RigidBodyPhysics(w) ==
    LET dt == w.delta
        J == DOMAIN w.pos \cap DOMAIN w.vel
    IN  [w EXCEPT
            !.pos = [e \in DOMAIN w.pos |->
                        IF e \in J
                        THEN <<w.pos[e][1] + w.vel[e][1] * dt,
                               w.pos[e][2] + w.vel[e][2] * dt>>
                        ELSE w.pos[e]],
            !.vel = [e \in DOMAIN w.vel |->
                        IF e \in J /\ e \in w.has_gravity
                        THEN <<w.vel[e][1], w.vel[e][2] - GRAVITY * dt>>
                        ELSE w.vel[e]]]

-----------------------------------------------------------------------------
(* The cooldown countdown both PlayerControl and ShootBullets perform *)

(* variant: the countdown without the floor at 0 *)
CountDown_NoFloor(c, dt) == IF c > 0 THEN c - dt * SECONDS ELSE c

CountDown(c, dt) ==
    LET c1 == IF c > 0 THEN c - dt * SECONDS ELSE c
    IN  IF c1 < 0 THEN 0 ELSE c1

(* PlayerControl::run *)

PlayerJoin(w) ==
    DOMAIN w.pos \cap DOMAIN w.vel \cap DOMAIN w.facing
        \cap DOMAIN w.cooldown \cap DOMAIN w.is_jumping \cap w.is_player

(* variant: PlayerControl without the ground clamp *)
PlayerControl_NoClamp(w) ==
    LET dt == w.delta
        input == w.input
        J == PlayerJoin(w)
        x1(e) == w.pos[e][1] + input.xaxis * dt * WALK_SPEED
        low(e) == FALSE
        jumping1(e) == IF low(e) THEN FALSE ELSE w.is_jumping[e]
        jump(e) == "JUMP" \in input.keys /\ ~jumping1(e)
    IN  [w EXCEPT
            !.pos = [e \in DOMAIN w.pos |->
                        IF e \in J
                        THEN <<x1(e), IF low(e) THEN GROUND_Y ELSE w.pos[e][2]>>
                        ELSE w.pos[e]],
            !.vel = [e \in DOMAIN w.vel |->
                        IF e \in J
                        THEN <<w.vel[e][1],
                               IF jump(e) THEN JUMP_IMPULSE
                               ELSE IF low(e) THEN 0 ELSE w.vel[e][2]>>
                        ELSE w.vel[e]],
            !.is_jumping = [e \in DOMAIN w.is_jumping |->
                        IF e \in J THEN (jump(e) \/ jumping1(e))
                        ELSE w.is_jumping[e]],
            !.cooldown = [e \in DOMAIN w.cooldown |->
                        IF e \in J THEN CountDown(w.cooldown[e], dt)
                        ELSE w.cooldown[e]],
            !.facing = [e \in DOMAIN w.facing |->
                        IF e \in J /\ input.xaxis < 0 THEN "Left"
                        ELSE IF e \in J /\ input.xaxis > 0 THEN "Right"
                        ELSE w.facing[e]]]

PlayerControl(w) ==
    LET dt == w.delta
        input == w.input
        J == PlayerJoin(w)
        x1(e) == w.pos[e][1] + input.xaxis * dt * WALK_SPEED
        low(e) == w.pos[e][2] < GROUND_Y
        jumping1(e) == IF low(e) THEN FALSE ELSE w.is_jumping[e]
        jump(e) == "JUMP" \in input.keys /\ ~jumping1(e)
    IN  [w EXCEPT
            !.pos = [e \in DOMAIN w.pos |->
                        IF e \in J
                        THEN <<x1(e), IF low(e) THEN GROUND_Y ELSE w.pos[e][2]>>
                        ELSE w.pos[e]],
            !.vel = [e \in DOMAIN w.vel |->
                        IF e \in J
                        THEN <<w.vel[e][1],
                               IF jump(e) THEN JUMP_IMPULSE
                               ELSE IF low(e) THEN 0 ELSE w.vel[e][2]>>
                        ELSE w.vel[e]],
            !.is_jumping = [e \in DOMAIN w.is_jumping |->
                        IF e \in J THEN (jump(e) \/ jumping1(e))
                        ELSE w.is_jumping[e]],
            !.cooldown = [e \in DOMAIN w.cooldown |->
                        IF e \in J THEN CountDown(w.cooldown[e], dt)
                        ELSE w.cooldown[e]],
            !.facing = [e \in DOMAIN w.facing |->
                        IF e \in J /\ input.xaxis < 0 THEN "Left"
                        ELSE IF e \in J /\ input.xaxis > 0 THEN "Right"
                        ELSE w.facing[e]]]

-----------------------------------------------------------------------------
(* Facing::to_f32 *)

to_f32(facing) == IF facing = "Left" THEN -1 ELSE 1

(* ShootBullets::run, in the order of its three loops *)

ShooterJoin(w) ==
    DOMAIN w.pos \cap DOMAIN w.facing \cap DOMAIN w.cooldown \cap w.is_player

(* first loop: the countdown, player_cooldown and the re-arm *)
PlayerCooldown(w) == CountDown(w.cooldown[Player], w.delta)

(* variant: the countdown without the re-arm after a shot *)
Rearm_Never(w) ==
    [w EXCEPT
        !.cooldown = [e \in DOMAIN w.cooldown |->
            IF e \in ShooterJoin(w)
            THEN CountDown(w.cooldown[e], w.delta)
            ELSE w.cooldown[e]]]

Rearm(w) ==
    [w EXCEPT
        !.cooldown = [e \in DOMAIN w.cooldown |->
            IF e \in ShooterJoin(w)
            THEN LET c == CountDown(w.cooldown[e], w.delta)
                 IN  IF c = 0 /\ w.input.shoot THEN COOLDOWN_MAX ELSE c
            ELSE w.cooldown[e]]]

(* the condition of the spawn branch *)
Fires(w) ==
    /\ Player \in ShooterJoin(w)
    /\ w.input.shoot
    /\ PlayerCooldown(w) = 0

(* second loop: the slot it takes, the first Dead one in creation order *)
SlotJoin(w) == DOMAIN w.pos \cap DOMAIN w.vel \cap DOMAIN w.bullet

(* variant: with no Dead slot the oldest slot is taken over *)
FirstDead_Overwrite(w) ==
    LET dead == {e \in SlotJoin(w) : w.bullet[e] = "Dead"}
    IN  IF dead = {} THEN Min(SlotJoin(w)) ELSE Min(dead)

(* variant: the last Dead slot is taken, not the first *)
FirstDead_Last(w) ==
    LET dead == {e \in SlotJoin(w) : w.bullet[e] = "Dead"}
    IN  IF dead = {} THEN NoSlot ELSE CHOOSE m \in dead : \A e \in dead : e <= m

FirstDead(w) ==
    LET dead == {e \in SlotJoin(w) : w.bullet[e] = "Dead"}
    IN  IF dead = {} THEN NoSlot ELSE Min(dead)

SpawnSlot(w) == IF Fires(w) THEN FirstDead(w) ELSE NoSlot

(* variant: the bullet always flies to the right *)
Spawn_AlwaysRight(w, slot, player_pos, facing) ==
    IF slot = NoSlot THEN w
    ELSE [w EXCEPT
            !.bullet[slot] = "Alive",
            !.pos[slot] = player_pos,
            !.vel[slot] = <<BULLET_SPEED, 0>>]

Spawn(w, slot, player_pos, facing) ==
    IF slot = NoSlot THEN w
    ELSE [w EXCEPT
            !.bullet[slot] = "Alive",
            !.pos[slot] = player_pos,
            !.vel[slot] = <<BULLET_SPEED * to_f32(facing), 0>>]

(* third loop: the bounds check *)
(* variant: the test without the absolute values *)
OutOfBounds_NoAbs(p) == p[1] > BOUNDS \/ p[2] > BOUNDS

OutOfBounds(p) == Abs(p[1]) > BOUNDS \/ Abs(p[2]) > BOUNDS

Despawn(w) ==
    [w EXCEPT
        !.bullet = [e \in DOMAIN w.bullet |->
            IF e \in DOMAIN w.pos /\ OutOfBounds(w.pos[e])
            THEN "Dead" ELSE w.bullet[e]]]

(* variant: the bounds check runs before the spawn loop *)
ShootBullets_DespawnFirst(w) ==
    Spawn(Despawn(Rearm(w)), SpawnSlot(w), w.pos[Player], w.facing[Player])

ShootBullets(w) ==
    Despawn(Spawn(Rearm(w), SpawnSlot(w), w.pos[Player], w.facing[Player]))

-----------------------------------------------------------------------------
(* DoHook::try_hook *)

Nearest(w, player, hooks) ==
    LET d(h) == distance(w.pos[h], w.pos[player])
        least == Min({d(h) : h \in hooks})
    IN  Min({h \in hooks : d(h) = least})

try_hook(w, player, hooks, t) ==
    IF player \notin DOMAIN w.pos THEN w
    ELSE LET ent == Nearest(w, player, hooks)
             nearest_dist == distance(w.pos[ent], w.pos[player])
             dx == w.pos[player][1] - w.pos[ent][1]
             dy == w.pos[player][2] - w.pos[ent][2]
             theta0 == atan2(dx, -dy)
             dist == Sqrt(dx * dx + dy * dy)
             sd == [theta0 |-> theta0, theta |-> theta0,
                    start_time |-> t, dist |-> dist]
         IN  [w EXCEPT
                !.is_target = @ \cup {ent},
                !.swing_data =
                    IF nearest_dist < HOOK_RANGE
                    THEN (player :> sd) @@ w.swing_data
                    ELSE @]

(* variant: a TOOL edge is ignored while the player holds a binding *)
DoHook_NoDetach(w) ==
    IF "TOOL" \in w.input.just_pressed /\ Player \notin DOMAIN w.swing_data
    THEN try_hook(w, Player, w.is_hook, w.t)
    ELSE w

(* variant: a TOOL edge on a bound player removes the binding and tries to
   attach again in the same pass *)
DoHook_Reattach(w) ==
    IF "TOOL" \in w.input.just_pressed
    THEN try_hook([w EXCEPT !.swing_data =
                      [e \in DOMAIN w.swing_data \ {Player} |-> w.swing_data[e]]],
                  Player, w.is_hook, w.t)
    ELSE w

(* DoHook::run *)

DoHook(w) ==
    IF "TOOL" \in w.input.just_pressed
    THEN IF Player \in DOMAIN w.swing_data
         THEN [w EXCEPT !.swing_data =
                  [e \in DOMAIN w.swing_data \ {Player} |-> w.swing_data[e]]]
         ELSE try_hook(w, Player, w.is_hook, w.t)
    ELSE w

-----------------------------------------------------------------------------
(* MainState::update: the body of one pass of the loop, up to the dispatch *)

SetDelta(w) == [w EXCEPT !.delta = 1, !.input = update_key_flags(w.input)]

(* variant: only the edges of keys no longer held are cleared *)
ClearJustPressed_KeepHeld(w) ==
    [w EXCEPT !.input.just_pressed = @ \cap w.input.keys]

ClearJustPressed(w) == [w EXCEPT !.input.just_pressed = {}]

(* the dispatcher: the four systems, in the order they were added *)
Dispatch(w) == DoHook(ShootBullets(PlayerControl(RigidBodyPhysics(w))))

(* the world as ShootBullets finds it in the pass that starts from w *)
AtShoot(w) == PlayerControl(RigidBodyPhysics(SetDelta(w)))

(* one call of update that runs one pass, with the keys as they are; run is
   the pair of the world and the Dead -> Alive transitions counted so far *)
Frame(run) ==
    <<ClearJustPressed(Dispatch(SetDelta(run[1]))),
      run[2] + (IF SpawnSlot(AtShoot(run[1])) # NoSlot THEN 1 ELSE 0)>>

(* n such calls, one after the other (the first half is computed, then the
   second half is run from its result) *)
RECURSIVE Frames(_, _)
Frames(run, n) ==
    IF n = 0 THEN run
    ELSE IF n = 1 THEN Frame(run)
    ELSE CHOOSE out \in {Frames(half, n - (n \div 2)) :
                            half \in {Frames(run, n \div 2)}} : TRUE

(* the world as DoHook finds it in the pass that starts from w *)
AtHook(w) == ShootBullets(AtShoot(w))

(* the first n passes of one call of update, from the world w *)
RECURSIVE Passes(_, _)
Passes(w, n) ==
    IF n = 0 THEN w
    ELSE CHOOSE out \in {Dispatch(SetDelta(before)) :
                            before \in {Passes(w, n - 1)}} : TRUE

(* one call of update in which check_update_time answers true n times *)
Update(w, n) == ClearJustPressed(Passes(w, n))

-----------------------------------------------------------------------------
(* f32, for the boss's phase timer: a positive value is m * 2^e with
   2^23 <= m < 2^24, and 0 has m = 0 *)

f32_zero == [m |-> 0, e |-> 0]
f32_seconds == [m |-> 8947849, e |-> -29]     \* 1.0 / 60.0, as update computes it
f32_ten == [m |-> 10485760, e |-> -20]        \* 10.0

(* round to nearest, ties to even: M + rem/den as a whole number *)
f32_round(M, rem, den) ==
    IF 2 * rem > den \/ (2 * rem = den /\ M % 2 = 1) THEN M + 1 ELSE M

f32_norm(M, e) == IF M = 2^24 THEN [m |-> 2^23, e |-> e + 1] ELSE [m |-> M, e |-> e]

(* a + b for a = 0 or 0 < b <= a *)
f32_add(a, b) ==
    IF a.m = 0 THEN b
    ELSE LET s == a.e - b.e
             q == b.m \div (2^s)
             r == b.m % (2^s)
             M == a.m + q
         IN  IF M < 2^24
             THEN f32_norm(f32_round(M, r, 2^s), a.e)
             ELSE f32_norm(f32_round(M \div 2, (M % 2) * (2^s) + r, 2^(s + 1)),
                           a.e + 1)

(* a > b, for a, b >= 0 *)
f32_gt(a, b) ==
    /\ a.m # 0
    /\ \/ b.m = 0
       \/ a.e > b.e
       \/ (a.e = b.e /\ a.m > b.m)

-----------------------------------------------------------------------------
(* The Actor, Bullets and Boss of MainState, and the functions on them *)

create_player ==
    [is_player |-> TRUE, pos |-> <<0, 0>>, vel |-> <<0, 0>>,
     facing |-> "Right", jumping |-> FALSE, shoot_cooldown |-> 0,
     swing_data |-> "None"]

create_bullets(n) ==
    [i \in 1 .. n |-> [pos |-> <<0, 0>>, vel |-> <<0, 0>>, alive |-> FALSE]]

create_boss ==
    [pos |-> <<0, 0>>, vel |-> <<0, 0>>, hp |-> 50, facing |-> "Left",
     jumping |-> FALSE, phase |-> "Attack", phase_timer |-> f32_zero]

(* v / d, towards 0 (a velocity is kept to a whole unit) *)
Quot(v, d) == IF v >= 0 THEN v \div d ELSE -((-v) \div d)

(* boss_update: the two matches on the phase; the phase functions
   boss_update_attack and boss_update_evade do nothing *)

(* variant: the phase switches without the timer going back to 0 *)
phase_match_NoReset(phase, phase_timer) ==
    IF f32_gt(phase_timer, f32_ten)
    THEN <<IF phase = "Attack" THEN "Evade" ELSE "Attack", phase_timer>>
    ELSE <<phase, phase_timer>>

phase_match(phase, phase_timer) ==
    IF phase = "Attack" /\ f32_gt(phase_timer, f32_ten)
    THEN <<"Evade", f32_zero>>
    ELSE IF phase = "Evade" /\ f32_gt(phase_timer, f32_ten)
    THEN <<"Attack", f32_zero>>
    ELSE <<phase, phase_timer>>

(* boss_update, with dt one pass *)
boss_update(b, a, bs, dt) ==
    LET pos1 == <<b.pos[1] + b.vel[1] * dt, b.pos[2] + b.vel[2] * dt>>
        dist == a.pos[1] - pos1[1]
        chase == Abs(dist) > Units(5)
        direction == IF dist > 0 THEN 1 ELSE -1
        x2 == IF chase THEN pos1[1] + direction * WALK_SPEED * dt ELSE pos1[1]
        low == pos1[2] < GROUND_Y
        landed == low /\ b.vel[2] < 0
        vy == IF low THEN (IF landed THEN 0 ELSE b.vel[2])
              ELSE b.vel[2] - GRAVITY * dt
        vx == b.vel[1] - Quot(10 * dt * b.vel[1], DESIRED_FPS)
        next == phase_match(b.phase, f32_add(b.phase_timer, f32_seconds))
    IN  [b EXCEPT
            !.pos = <<x2, IF low THEN GROUND_Y ELSE pos1[2]>>,
            !.facing = IF chase
                       THEN (IF direction > 0 THEN "Right" ELSE "Left")
                       ELSE @,
            !.vel = <<vx, vy>>,
            !.jumping = IF landed THEN FALSE ELSE @,
            !.phase = next[1],
            !.phase_timer = next[2]]

(* Disc::new and Disc::intersects *)
Disc(pos, radius) == [pos |-> pos, radius |-> radius]

intersects(self, other) ==
    LET d == distance(self.pos, other.pos)
    IN  d < self.radius \/ d < other.radius

(* handle_intersection: the bullets that hit, then the boss and the bullets
   after the loop *)
Hits(b, bs) ==
    {i \in DOMAIN bs :
        bs[i].alive /\ intersects(Disc(bs[i].pos, Units(5)), Disc(b.pos, Units(10)))}

RECURSIVE SumVelX(_, _)
SumVelX(bs, S) ==
    IF S = {} THEN 0
    ELSE LET i == Min(S) IN Quot(bs[i].vel[1], 2) + SumVelX(bs, S \ {i})

handle_intersection(b, bs) ==
    LET H == Hits(b, bs)
    IN  <<[b EXCEPT !.hp = @ - 10 * Cardinality(H),
                    !.vel = <<@[1] + SumVelX(bs, H), @[2]>>],
          [i \in DOMAIN bs |-> IF i \in H THEN [bs[i] EXCEPT !.alive = FALSE]
                                          ELSE bs[i]]>>

-----------------------------------------------------------------------------
(* The state machine *)

legacy == <<boss, bullets, actor, boss_log>>

NoBossLog == [calls |-> 0, checks |-> 0, switches |-> << >>]

InitWorld(n) ==
    /\ world = NewWorld(n)
    /\ global_time = 0
    /\ pc = "idle"
    /\ prev = NewWorld(n)
    /\ spawned = NoSlot
    /\ fired = FALSE
    /\ shots = 0
    /\ ticks = 0
    /\ passes = 0
    /\ events = 0
    /\ skipped = 0

InitWith(n) ==
    /\ InitWorld(n)
    /\ boss = create_boss
    /\ bullets = create_bullets(n)
    /\ actor = create_player
    /\ boss_log = NoBossLog

Init == InitWith(MaxPool)

history == <<prev, spawned, fired, shots>>

(* key_down_event -> MainState::register_keypress *)
KeyDown(k) ==
    /\ pc = "idle"
    /\ events < MaxEvents
    /\ world' = [world EXCEPT !.input = register_keypress(@, k)]
    /\ events' = events + 1
    /\ UNCHANGED <<global_time, pc, history, ticks, passes, skipped, legacy>>

(* key_up_event -> MainState::unregister_keypress *)
KeyUp(k) ==
    /\ pc = "idle"
    /\ events < MaxEvents
    /\ world' = [world EXCEPT !.input = unregister_keypress(@, k)]
    /\ events' = events + 1
    /\ UNCHANGED <<global_time, pc, history, ticks, passes, skipped, legacy>>

(* update: check_update_time answers true; the pass is set up *)
BeginPass(limit) ==
    /\ pc \in {"idle", "loop"}
    /\ ticks < limit
    /\ passes < MaxPasses
    /\ world' = SetDelta(world)
    /\ global_time' = global_time + 1
    /\ pc' = "physics"
    /\ prev' = world'
    /\ spawned' = NoSlot
    /\ fired' = FALSE
    /\ ticks' = ticks + 1
    /\ passes' = passes + 1
    /\ UNCHANGED <<shots, events, skipped, legacy>>

(* the dispatcher runs the systems one after the other *)
RunPhysics ==
    /\ pc = "physics"
    /\ world' = RigidBodyPhysics(world)
    /\ pc' = "control"
    /\ UNCHANGED <<global_time, history, ticks, passes, events, skipped, legacy>>

RunControl ==
    /\ pc = "control"
    /\ world' = PlayerControl(world)
    /\ pc' = "shoot"
    /\ UNCHANGED <<global_time, history, ticks, passes, events, skipped, legacy>>

RunShoot ==
    /\ pc = "shoot"
    /\ world' = ShootBullets(world)
    /\ spawned' = SpawnSlot(world)
    /\ fired' = Fires(world)
    /\ shots' = shots + (IF SpawnSlot(world) # NoSlot THEN 1 ELSE 0)
    /\ pc' = "hook"
    /\ UNCHANGED <<global_time, prev, ticks, passes, events, skipped, legacy>>

RunHook ==
    /\ pc = "hook"
    /\ world' = DoHook(world)
    /\ pc' = "loop"
    /\ UNCHANGED <<global_time, history, ticks, passes, events, skipped, legacy>>

(* update: check_update_time answers false; just_pressed is cleared *)
EndUpdate ==
    /\ pc \in {"idle", "loop"}
    /\ world' = ClearJustPressed(world)
    /\ pc' = "idle"
    /\ passes' = 0
    /\ UNCHANGED <<global_time, history, ticks, events, skipped, legacy>>

(* n calls of update at the start of play, one pass each, while the player
   keeps the keys as they are: the n passes taken in one step *)
Hold(n) ==
    /\ pc = "idle"
    /\ ticks = 0
    /\ skipped < MaxSkips
    /\ \E before \in {Frames(<<world, shots>>, n - 1)} :
          \E after \in {Frame(before)} :
             /\ world' = after[1]
             /\ shots' = after[2]
             /\ prev' = SetDelta(before[1])
             /\ spawned' = SpawnSlot(AtShoot(before[1]))
             /\ fired' = Fires(AtShoot(before[1]))
    /\ global_time' = global_time + n
    /\ skipped' = skipped + 1
    /\ UNCHANGED <<pc, ticks, passes, events, legacy>>

Next ==
    \/ \E k \in Inputs : KeyDown(k)
    \/ \E k \in Inputs : KeyUp(k)
    \/ BeginPass(MaxTicks)
    \/ RunPhysics
    \/ RunControl
    \/ RunShoot
    \/ RunHook
    \/ EndUpdate
    \/ Hold(HoldShort)
    \/ Hold(HoldLong)

Spec == Init /\ [][Next]_vars

(* The keys are pressed before the first pass and then held for HeldTicks
   passes; the pool is the bounded one or the program's *)
InitHeld == InitWith(MaxPool) \/ InitWith(POOL_SIZE)

NextHeld ==
    \/ \E k \in Inputs : ticks = 0 /\ KeyDown(k)
    \/ BeginPass(HeldTicks)
    \/ RunPhysics
    \/ RunControl
    \/ RunShoot
    \/ RunHook
    \/ EndUpdate

SpecHeld == InitHeld /\ [][NextHeld]_vars

(* The functions on the Boss, applied to the objects MainState::new creates
   and to bullets placed around the boss *)

ecs == <<world, global_time, pc, prev, spawned, fired, shots, ticks, passes,
         events, skipped>>

(* boss_update(&mut self.boss, &mut self.player, &mut self.bullets, seconds) *)
BossUpdate(limit) ==
    /\ boss_log.calls < limit
    /\ boss' = boss_update(boss, actor, bullets, 1)
    /\ boss_log' = [boss_log EXCEPT
                       !.calls = @ + 1,
                       !.switches = IF boss'.phase # boss.phase
                                    THEN Append(@, boss_log.calls + 1) ELSE @]
    /\ UNCHANGED <<ecs, bullets, actor>>

(* handle_intersection(&mut self.boss, &mut self.bullets, seconds) *)
HandleIntersection ==
    /\ boss_log.checks < MaxChecks
    /\ boss' = handle_intersection(boss, bullets)[1]
    /\ bullets' = handle_intersection(boss, bullets)[2]
    /\ boss_log' = [boss_log EXCEPT !.checks = @ + 1]
    /\ UNCHANGED <<ecs, actor>>

(* the boss alone, with the player standing at one of three places *)
ActorXs == {-Units(50), 0, Units(50)}

InitBoss ==
    /\ InitWorld(MaxPool)
    /\ boss = create_boss
    /\ bullets = create_bullets(MaxPool)
    /\ actor \in {[create_player EXCEPT !.pos = <<x, 0>>] : x \in ActorXs}
    /\ boss_log = NoBossLog

NextBoss == BossUpdate(MaxBossCalls)

SpecBoss == InitBoss /\ [][NextBoss]_vars

(* the boss with bullets at distances 3, 7, 12 and 20 from where it starts *)
ProbeBullets ==
    {[pos |-> <<Units(x), 0>>, vel |-> <<v, 0>>, alive |-> live] :
        x \in {3, 7, 12, 20}, v \in {-BULLET_SPEED, BULLET_SPEED},
        live \in BOOLEAN}

InitHit ==
    /\ InitWorld(MaxPool)
    /\ boss = create_boss
    /\ bullets \in [1 .. MaxPool -> ProbeBullets]
    /\ actor = create_player
    /\ boss_log = NoBossLog

NextHit ==
    \/ BossUpdate(MaxHitCalls)
    \/ HandleIntersection

SpecHit == InitHit /\ [][NextHit]_vars

-----------------------------------------------------------------------------
(* Properties *)

(* a pass has run to its end: the history describes the last pass *)
TickDone == pc \in {"loop", "idle"} /\ (ticks > 0 \/ skipped > 0)

Slots == DOMAIN world.bullet
PlayerPos == world.pos[Player]
InsideBounds(p) ==
    /\ -Units(400) <= p[1] /\ p[1] <= Units(400)
    /\ -Units(400) <= p[2] /\ p[2] <= Units(400)

(* C1, as stated: a slot that ShootBullets turns from Dead to Alive in a tick
   is still Alive at the end of that tick. *)
C1_SpawnedStillAlive ==
    (TickDone /\ spawned # NoSlot) => world.bullet[spawned] = "Alive"

(* C1, amended: a slot that ShootBullets turns from Dead to Alive in a tick is
   Alive at the end of that tick exactly when the player's position, where it
   was spawned, is within |x| <= 400 and |y| <= 400. *)
C1_SpawnedAliveIffInside ==
    (TickDone /\ spawned # NoSlot) =>
        /\ world.pos[spawned] = PlayerPos
        /\ (world.bullet[spawned] = "Alive") <=> InsideBounds(PlayerPos)

(* C1: a bullet was spawned beyond the bounds and despawned by the same pass *)
C1_Witness ==
    /\ TickDone
    /\ spawned # NoSlot
    /\ world.bullet[spawned] = "Dead"
    /\ ~InsideBounds(PlayerPos)

(* C2, as stated: over one full tick in which no shot fires the cooldown goes
   down by exactly one dt, floored at 0. *)
C2_OneDecrementPerTick ==
    (TickDone /\ ~fired) =>
        LET d == prev.cooldown[Player] - SECONDS
        IN  world.cooldown[Player] = IF d < 0 THEN 0 ELSE d

(* the case of C3: SHOOT held through HeldTicks passes from the initial world
   with its pool of POOL_SIZE slots *)
C3_Case ==
    /\ DOMAIN world.bullet = 1 .. 100
    /\ "SHOOT" \in world.input.keys
    /\ ticks = DESIRED_FPS
    /\ pc = "loop"

C4_CooldownInRange ==
    /\ 0 <= world.cooldown[Player]
    /\ world.cooldown[Player] <= (35 * CdScale) \div 1000
    /\ (pc = "shoot" /\ 0 < prev.cooldown[Player]
                     /\ prev.cooldown[Player] < SECONDS)
           => world.cooldown[Player] = 0

(* C4: PlayerControl has counted a remainder smaller than dt down to 0 *)
C4_Witness ==
    /\ pc = "shoot"
    /\ 0 < prev.cooldown[Player]
    /\ prev.cooldown[Player] < SECONDS
    /\ world.cooldown[Player] = 0

(* the case of C5: ShootBullets is about to run with SHOOT held, the cooldown
   at 0 and a Dead slot in the pool *)
C5_Case ==
    /\ pc = "shoot"
    /\ world.input.shoot
    /\ world.cooldown[Player] = 0
    /\ \E e \in Slots : world.bullet[e] = "Dead"

C5_Slot ==
    CHOOSE e \in Slots :
        /\ world.bullet[e] = "Dead"
        /\ \A f \in Slots : f < e => world.bullet[f] = "Alive"

C5_Sign == IF world.facing[Player] = "Left" THEN -1 ELSE 1

C5_Rest ==
    /\ world'.cooldown[Player] = (35 * CdScale) \div 1000
    /\ world'.pos[C5_Slot] = PlayerPos
    /\ world'.vel[C5_Slot] = <<Speed(600) * C5_Sign, 0>>
    /\ \A e \in Slots \ {C5_Slot} :
          /\ world'.bullet[e] = "Alive" => world.bullet[e] = "Alive"
          /\ world'.pos[e] = world.pos[e]
          /\ world'.vel[e] = world.vel[e]

(* C5, as stated: when SHOOT is held and the cooldown is 0 at the ShootBullets
   pass, the cooldown becomes 0.035 and the first Dead slot, and no other,
   becomes Alive at the player's position with velocity (600 * sign, 0). *)
C5_FireMakesFirstDeadAlive ==
    [][C5_Case => (C5_Rest /\ world'.bullet[C5_Slot] = "Alive")]_vars

(* C5, amended: in that case the cooldown becomes 0.035 and the first Dead
   slot, and no other, gets the player's position and velocity (600 * sign,
   0); after the pass it is Alive exactly when that position is within the
   bounds of 400, and no other slot has become Alive. *)
C5_FireTakesFirstDead ==
    [][C5_Case => (C5_Rest /\ ((world'.bullet[C5_Slot] = "Alive")
                                  <=> InsideBounds(PlayerPos)))]_vars

(* C5: ShootBullets has fired to the left into the second slot *)
C5_Witness ==
    /\ pc = "hook"
    /\ spawned = 2
    /\ world.bullet[1] = "Alive"
    /\ world.bullet[2] = "Alive"
    /\ world.vel[2] = <<-Speed(600), 0>>
    /\ world.cooldown[Player] = (35 * CdScale) \div 1000

(* the case of C6: ShootBullets is about to run a fire attempt (SHOOT held,
   cooldown 0) with every slot Alive *)
C6_Case ==
    /\ pc = "shoot"
    /\ world.input.shoot
    /\ world.cooldown[Player] = 0
    /\ \A e \in Slots : world.bullet[e] = "Alive"

C7_RecycleRoundTrip ==
    TickDone =>
        /\ \A e \in Slots :
              (/\ prev.bullet[e] = "Alive"
               /\ prev.pos[e][1] <= Units(400)
               /\ prev.pos[e][1] + prev.vel[e][1] > Units(400))
                  => (world.bullet[e] = "Dead" /\ world.pos[e][1] > Units(400))
        /\ spawned # NoSlot =>
              /\ prev.bullet[spawned] = "Dead"
              /\ \A f \in Slots : f < spawned => prev.bullet[f] = "Alive"

(* C7: the first slot, Dead beyond x = 400 since an earlier tick while the
   second slot is Dead too, has been taken again by a fire *)
C7_Witness ==
    /\ TickDone
    /\ spawned = 1
    /\ prev.bullet[1] = "Dead"
    /\ prev.bullet[2] = "Dead"
    /\ prev.pos[1][1] > Units(400)
    /\ world.bullet[1] = "Alive"

(* C8, as stated: a Dead slot that is not selected for spawning in a tick has
   the same Position and Velocity at the end of the tick as at its start. *)
C8_DeadSlotsUntouched ==
    TickDone =>
        \A e \in Slots :
            (prev.bullet[e] = "Dead" /\ spawned # e)
                => (world.pos[e] = prev.pos[e] /\ world.vel[e] = prev.vel[e])

(* C9, as stated: no binding with dist = 0 is reachable. *)
C9_NoZeroDist ==
    \A e \in DOMAIN world.swing_data : world.swing_data[e].dist > 0

(* the distance from the player to the nearest hook *)
C10_NearestDist ==
    Min({distance(world.pos[h], PlayerPos) : h \in world.is_hook})

(* the case of C10: the grapple pass has seen a TOOL rising edge while the
   player was Unattached *)
C10_Case ==
    /\ pc = "loop"
    /\ "TOOL" \in world.input.just_pressed
    /\ Player \notin DOMAIN prev.swing_data

(* C10: on a TOOL rising edge while Unattached a binding is created if and
   only if the nearest hook is strictly less than 100 away, and the binding's
   dist is that distance and its theta is its theta0. *)
C10_AttachIffInRange ==
    C10_Case =>
        /\ (Player \in DOMAIN world.swing_data) <=> (C10_NearestDist < Units(100))
        /\ Player \in DOMAIN world.swing_data =>
              /\ world.swing_data[Player].dist = C10_NearestDist
              /\ world.swing_data[Player].theta = world.swing_data[Player].theta0

(* C10: a binding was created at a distance between 90 and 100 *)
C10_Witness ==
    /\ C10_Case
    /\ Player \in DOMAIN world.swing_data
    /\ world.swing_data[Player].dist > Units(90)

(* the case of C11: DoHook is about to run with a TOOL rising edge while the
   player holds a binding *)
C11_Case ==
    /\ pc = "hook"
    /\ "TOOL" \in world.input.just_pressed
    /\ Player \in DOMAIN world.swing_data

(* C11: a TOOL rising edge seen by DoHook while the player holds a binding
   removes the binding, creates none and writes nothing else in that pass;
   an Unattached player gets a binding only in a pass of DoHook that sees a
   TOOL edge, and RigidBodyPhysics moves it by its velocity and gravity. *)
C11_DetachOnEdge ==
    [][/\ C11_Case =>
             /\ Player \notin DOMAIN world'.swing_data
             /\ world'.pos = world.pos
             /\ world'.vel = world.vel
             /\ world'.is_jumping = world.is_jumping
       /\ (/\ skipped' = skipped
           /\ Player \notin DOMAIN world.swing_data
           /\ Player \in DOMAIN world'.swing_data)
             => (pc = "hook" /\ "TOOL" \in world.input.just_pressed)
       /\ (pc = "physics" /\ Player \notin DOMAIN world.swing_data) =>
             /\ world'.pos[Player] =
                   <<PlayerPos[1] + world.vel[Player][1],
                     PlayerPos[2] + world.vel[Player][2]>>
             /\ world'.vel[Player] =
                   <<world.vel[Player][1], world.vel[Player][2] - Accel(500)>>
      ]_vars

(* C11: a pass has ended in which DoHook saw the edge while the player held a
   binding, and the player is Unattached *)
C11_Witness ==
    /\ pc = "loop"
    /\ "TOOL" \in world.input.just_pressed
    /\ Player \in DOMAIN prev.swing_data
    /\ Player \notin DOMAIN world.swing_data

(* C12, as stated: the player holds a binding if and only if exactly one hook
   carries the IsSwingTarget tag; never two tagged hooks, never a tagged hook
   without a binding. *)
C12_BindingIffOneTarget ==
    /\ (Player \in DOMAIN world.swing_data)
           <=> (Cardinality(world.is_target \cap world.is_hook) = 1)
    /\ Cardinality(world.is_target) <= 1

(* the case of C13: DoHook is about to run with a TOOL rising edge while the
   player is Unattached and no hook is within 100 *)
C13_Case ==
    /\ pc = "hook"
    /\ "TOOL" \in world.input.just_pressed
    /\ Player \notin DOMAIN world.swing_data
    /\ C10_NearestDist >= Units(100)

(* C13, as stated: a TOOL rising edge while Unattached with no hook within 100
   leaves the whole component state as it was before the grapple pass. *)
C13_OutOfRangeIsNoOp == [][C13_Case => world' = world]_vars

(* C14, as stated: after a tick in which JUMP is held and the player holds a
   binding at its start, the binding is removed and velocity.y is the jump
   impulse 300. *)
C14_JumpDetaches ==
    (/\ TickDone
     /\ "JUMP" \in prev.input.keys
     /\ Player \in DOMAIN prev.swing_data)
        => /\ Player \notin DOMAIN world.swing_data
           /\ world.vel[Player][2] = Speed(300)

(* C15, as stated: at the end of every tick in which the player holds a
   binding, velocity.y is 0 and the player's distance from the bound hook is
   the binding's dist. *)
C15_PendulumOwnsMotion ==
    (TickDone /\ Player \in DOMAIN world.swing_data) =>
        /\ world.vel[Player][2] = 0
        /\ \E h \in world.is_target \cap world.is_hook :
              distance(world.pos[h], PlayerPos) = world.swing_data[Player].dist

(* C16: no pass of a call of update changes just_pressed, so every pass of
   the call sees the same set, and when the call returns the set is empty. *)
C16_EdgesClearedPerFrame ==
    [][/\ pc' \in {"physics", "control", "shoot", "hook", "loop"}
             => world'.input.just_pressed = world.input.just_pressed
       /\ (pc' = "idle" /\ events' = events)
             => world'.input.just_pressed = {}]_vars

(* C16: the second pass of one call of update has run with the edge the first
   pass saw still in just_pressed *)
C16_Witness ==
    /\ pc = "loop"
    /\ passes = 2
    /\ world.input.just_pressed # {}

(* C17: one pass of RigidBodyPhysics moves every entity with Position and
   Velocity by its velocity of before the pass times dt, then lowers
   velocity.y by 500 * dt if the entity has HasGravity and leaves the velocity
   of every other entity as it was. *)
C17_KinematicsStep ==
    [][pc = "physics" =>
          \A e \in DOMAIN world.vel :
             /\ world'.pos[e] = <<world.pos[e][1] + world.vel[e][1] * world.delta,
                                  world.pos[e][2] + world.vel[e][2] * world.delta>>
             /\ world'.vel[e] =
                   IF e \in world.has_gravity
                   THEN <<world.vel[e][1],
                          world.vel[e][2] - Accel(500) * world.delta>>
                   ELSE world.vel[e]]_vars

(* C17: RigidBodyPhysics has moved a falling player and a flying bullet *)
C17_Witness ==
    /\ pc = "control"
    /\ prev.vel[Player][2] < 0
    /\ world.pos[Player][2] = prev.pos[Player][2] + prev.vel[Player][2]
    /\ world.vel[Player][2] = prev.vel[Player][2] - Accel(500)
    /\ \E e \in Slots :
          /\ prev.vel[e][1] # 0
          /\ world.pos[e][1] = prev.pos[e][1] + prev.vel[e][1]
          /\ world.vel[e] = prev.vel[e]

(* the case of C18: PlayerControl is about to run with the player below -150
   and JUMP not held *)
C18_Case ==
    /\ pc = "control"
    /\ PlayerPos[2] < Units(-150)
    /\ "JUMP" \notin world.input.keys

(* C18: whenever the player is below -150 when PlayerControl runs and JUMP is
   not held, after the pass position.y is -150, velocity.y is 0 and IsJumping
   is false. *)
C18_GroundClamp ==
    [][C18_Case =>
          /\ world'.pos[Player][2] = Units(-150)
          /\ world'.vel[Player][2] = 0
          /\ world'.is_jumping[Player] = FALSE]_vars

(* C18: PlayerControl has put a player that had fallen below -150 back on the
   ground *)
C18_Witness ==
    /\ pc = "shoot"
    /\ "JUMP" \notin world.input.keys
    /\ prev.pos[Player][2] + prev.vel[Player][2] < Units(-150)
    /\ prev.vel[Player][2] < 0
    /\ PlayerPos[2] = Units(-150)
    /\ world.vel[Player][2] = 0

(* C19: at the end of every tick no slot is Alive with |x| > 400 or
   |y| > 400. *)
C19_AliveWithinBounds ==
    TickDone =>
        \A e \in Slots : world.bullet[e] = "Alive" => InsideBounds(world.pos[e])

(* C19: the tick has set Dead a bullet that flew beyond the bounds to the left
   while another slot is Alive within them *)
C19_Witness ==
    /\ TickDone
    /\ \E e \in Slots :
          /\ prev.bullet[e] = "Alive"
          /\ InsideBounds(prev.pos[e])
          /\ world.bullet[e] = "Dead"
          /\ world.pos[e][1] < -Units(400)
    /\ \E e \in Slots : world.bullet[e] = "Alive"

(* C20, as stated: a binding created at an attach records as start_time the
   simulation clock of the tick in which the attach happens. *)
C20_StartTimeIsClock ==
    (C10_Case /\ Player \in DOMAIN world.swing_data)
        => world.swing_data[Player].start_time = global_time

(* C22: a PlayerControl pass leaves Facing Left if xaxis < 0, Right if
   xaxis > 0 and as it was if xaxis = 0, which is the case when LEFT and RIGHT
   are both held; no other step changes Facing. *)
C22_FacingSticky ==
    [][/\ pc = "control" =>
             /\ world'.facing[Player] =
                   IF world.input.xaxis < 0 THEN "Left"
                   ELSE IF world.input.xaxis > 0 THEN "Right"
                   ELSE world.facing[Player]
             /\ {"LEFT", "RIGHT"} \subseteq world.input.keys
                   => world'.facing[Player] = world.facing[Player]
       /\ (pc # "control" /\ skipped' = skipped)
             => world'.facing = world.facing]_vars

(* C22: PlayerControl has run with LEFT and RIGHT both held and the player
   still faces Left, as after the pass before *)
C22_Witness ==
    /\ pc = "shoot"
    /\ {"LEFT", "RIGHT"} \subseteq world.input.keys
    /\ world.input.xaxis = 0
    /\ prev.facing[Player] = "Left"
    /\ world.facing[Player] = "Left"

(* the distance from the player to the nearest hook in the world w *)
C25_Near(w) ==
    Min({distance(w.pos[h], w.pos[Player]) : h \in w.is_hook}) < Units(100)

(* the case of C25: a call of update is about to begin with a TOOL press in
   just_pressed, the player Unattached and within 100 of a hook *)
C25_Case ==
    /\ pc = "idle"
    /\ "TOOL" \in world.input.just_pressed
    /\ Player \notin DOMAIN world.swing_data
    /\ C25_Near(world)

(* C25, as stated: for a player Unattached and within 100 of a hook at the
   start of a real frame that contains a TOOL press, the player holds a
   binding at the end of the frame iff the number of passes run in the frame
   is odd. *)
C25_BoundIffOddPasses ==
    C25_Case =>
        \A n \in 0 .. MaxPasses :
            (Player \in DOMAIN Update(world, n).swing_data) <=> (n % 2 = 1)

(* every odd pass among the first n of the frame finds the player within 100
   of a hook when DoHook runs *)
C25_InRange(w, n) ==
    \A k \in 1 .. n : (k % 2 = 1) => C25_Near(AtHook(Passes(w, k - 1)))

(* C25, amended: for a player Unattached at the start of a real frame that
   contains a TOOL press, and within 100 of a hook whenever DoHook runs in an
   odd pass of the frame, the player holds a binding at the end of the frame
   iff the number of passes run in the frame is odd; a frame whose first pass
   finds the player 100 or more from every hook leaves it Unattached after
   that pass. *)
C25_BoundIffOddPassesInRange ==
    (/\ pc = "idle"
     /\ "TOOL" \in world.input.just_pressed
     /\ Player \notin DOMAIN world.swing_data)
        => /\ \A n \in 0 .. MaxPasses :
                 C25_InRange(world, n) =>
                    ((Player \in DOMAIN Update(world, n).swing_data)
                        <=> (n % 2 = 1))
           /\ ~C25_Near(AtHook(world))
                 => Player \notin DOMAIN Update(world, 1).swing_data

(* C25: the second pass of one call of update has removed the binding that
   the first pass of the same call created for the same TOOL press *)
C25_Witness ==
    /\ pc = "loop"
    /\ passes = 2
    /\ "TOOL" \in world.input.just_pressed
    /\ Player \in DOMAIN prev.swing_data
    /\ Player \notin DOMAIN world.swing_data
    /\ C25_Near(world)

(* C26: a call of update that runs no pass clears just_pressed and changes
   nothing else; a key that is held and not in just_pressed is never added to
   it again while it stays held; and no step taken while TOOL is not in
   just_pressed changes the binding or the IsSwingTarget tags. *)
C26_SkippedFrameDropsEdge ==
    [][/\ (pc = "idle" /\ pc' = "idle" /\ events' = events /\ skipped' = skipped)
             => world' = [world EXCEPT !.input.just_pressed = {}]
       /\ \A k \in Inputs :
             (k \in world.input.keys /\ k \notin world.input.just_pressed
                                     /\ k \in world'.input.keys)
                => k \notin world'.input.just_pressed
       /\ "TOOL" \notin world.input.just_pressed
             => /\ world'.swing_data = world.swing_data
                /\ world'.is_target = world.is_target]_vars

(* C26: TOOL is held, its press was cleared by a call of update that ran no
   pass, and a pass has since run within 100 of a hook without any grapple
   attempt (no hook was ever tagged) *)
C26_Witness ==
    /\ pc = "loop"
    /\ ticks > 0
    /\ "TOOL" \in world.input.keys
    /\ "TOOL" \notin world.input.just_pressed
    /\ C25_Near(world)
    /\ world.is_target = {}
    /\ Player \notin DOMAIN world.swing_data

(* C27: at the end of every tick the player's position.y is at least -150. *)
C27_PlayerAboveGround == TickDone => PlayerPos[2] >= Units(-150)

(* C27: a tick has ended with the player on the ground line after
   RigidBodyPhysics had moved it below in that tick *)
C27_Witness ==
    /\ TickDone
    /\ prev.pos[Player][2] + prev.vel[Player][2] < Units(-150)
    /\ PlayerPos[2] = Units(-150)

(* the calls of boss_update a phase lasts: 10 s at 60 calls per second *)
C23_PhaseCalls == 10 * DESIRED_FPS

(* C23: under repeated calls of boss_update with dt = 1/60 the phase goes
   Attack, Evade, Attack, ...; the switches happen in the calls 600, 1200,
   ..., so each phase lasts exactly 600 calls, and the timer is 0 after each
   switch. *)
C23_PhaseAlternates ==
    LET done == boss_log.calls \div C23_PhaseCalls
    IN  /\ boss_log.switches = [i \in 1 .. done |-> C23_PhaseCalls * i]
        /\ boss.phase = IF done % 2 = 0 THEN "Attack" ELSE "Evade"
        /\ (boss_log.calls % C23_PhaseCalls = 0) => boss.phase_timer.m = 0
        /\ (boss_log.calls % C23_PhaseCalls # 0) => boss.phase_timer.m # 0

(* C23: the boss is back in Attack after an Attack and an Evade phase *)
C23_Witness ==
    /\ boss_log.calls = 2 * C23_PhaseCalls
    /\ boss_log.switches = <<C23_PhaseCalls, 2 * C23_PhaseCalls>>
    /\ boss.phase = "Attack"
    /\ boss.phase_timer.m = 0

(* C24, as stated: handle_intersection despawns an Alive bullet, takes 10 HP
   and adds half the bullet's velocity.x to the boss's velocity.x exactly when
   the bullet is less than 5 + 10 = 15 from the boss; Dead bullets do
   nothing. *)
C24_RadiusSumDamage ==
    [][boss_log'.checks = boss_log.checks + 1 =>
          LET near == {i \in DOMAIN bullets :
                          /\ bullets[i].alive
                          /\ distance(bullets[i].pos, boss.pos) < Units(15)}
          IN  /\ \A i \in DOMAIN bullets :
                    /\ bullets'[i].alive = (bullets[i].alive /\ i \notin near)
                    /\ bullets'[i].pos = bullets[i].pos
              /\ boss'.hp = boss.hp - 10 * Cardinality(near)
              /\ boss'.vel[1] = boss.vel[1] + SumVelX(bullets, near)]_vars

(* C21, as stated: each pass sets DeltaTime to 1/60 s before any system runs
   and then runs Kinematics, PlayerControl, ProjectileSystem, GrappleSystem
   and BossAI once each in that order, so that when the pass ends boss_update
   has run once per pass; a bullet spawned in the pass is at the player's
   position when the pass ends. *)
C21_PassRunsFiveSystems ==
    [][skipped' = skipped =>
          /\ pc' = "physics" => (pc \in {"idle", "loop"} /\ world'.delta = 1)
          /\ pc = "physics" => pc' = "control"
          /\ pc = "control" => pc' = "shoot"
          /\ pc = "shoot" => pc' = "hook"
          /\ pc = "hook" =>
                /\ pc' = "loop"
                /\ boss_log'.calls = ticks'
                /\ spawned' # NoSlot
                      => world'.pos[spawned'] = world'.pos[Player]]_vars

=============================================================================
